---- MODULE Spec2Model ----
(***************************************************************************)
(* Model of me_fmap.py: construction of a B0 field map, its gradient and a *)
(* T2* map from multi-echo magnitude/phase GRE data.                       *)
(*                                                                         *)
(* Numbers.  The script computes in IEEE-754 doubles through numpy.  A     *)
(* computed sample is modelled as a record [k, n]: k = "fin" with the      *)
(* integer n counting a fixed unit of the quantity, k = "inf" with n the   *)
(* sign, or k = "nan".  The units are chosen so that every division the    *)
(* script performs on finite values is exact, except the logarithm and the *)
(* T2* quotient, which are fixed-point.  Rounding of doubles is not        *)
(* modelled; the special values and their propagation are.                 *)
(*   phase (rad)        : pi / (2 * PhaseFullScale)   ("half counts")      *)
(*   echo time          : milliseconds                                     *)
(*   dB0 (rad/s)        : phase unit / (ms * RadScale)                     *)
(*   dB0 (Hz)           : half of the rad/s unit without its factor pi     *)
(*   gradient           : dB0 unit / (mm * GradScale), over gamma_1H       *)
(*   log, T2* (ms)      : 1 / LnScale                                      *)
(***************************************************************************)
EXTENDS Integers, Sequences, FiniteSets, TLC

(* ------------------------------ bounds -------------------------------- *)
NX == 3
NY == 3
NZ == 2
MaxMag == 10
MaxTE == 3
MaxVoxelMM == 2
LnTerms == 6
LnScale == 1000
PhsStep == 3000

(* ------------------------- program constants -------------------------- *)
PhaseFullScale == 4096
ThresholdInv == 10
KernelSize == 3

(* --------------------------- IEEE samples ----------------------------- *)
Fin(n) == [k |-> "fin", n |-> n]
NaN == [k |-> "nan", n |-> 0]
Inf(s) == [k |-> "inf", n |-> s]

Sgn(n) == IF n > 0 THEN 1 ELSE IF n < 0 THEN -1 ELSE 0
Abs(n) == IF n < 0 THEN -n ELSE n
IsZero(a) == a.k = "fin" /\ a.n = 0

\* integer quotient rounded toward zero
Quot(a, b) == Sgn(a) * Sgn(b) * (Abs(a) \div Abs(b))

RECURSIVE Fact(_)
Fact(n) == IF n <= 1 THEN 1 ELSE n * Fact(n - 1)

\* a - b on doubles
FSub(a, b) ==
    IF a.k = "nan" \/ b.k = "nan" THEN NaN
    ELSE IF a.k = "inf" /\ b.k = "inf" THEN (IF a.n = b.n THEN NaN ELSE a)
    ELSE IF a.k = "inf" THEN a
    ELSE IF b.k = "inf" THEN Inf(-b.n)
    ELSE Fin(a.n - b.n)

\* a * m on doubles
FMul(a, m) ==
    IF a.k = "nan" \/ m.k = "nan" THEN NaN
    ELSE IF a.k = "inf" \/ m.k = "inf"
         THEN (IF IsZero(a) \/ IsZero(m) THEN NaN ELSE Inf(Sgn(a.n) * Sgn(m.n)))
    ELSE Fin(a.n * m.n)

\* a / b on doubles; the finite quotient is counted in units of 1/scale.
\* A zero divisor is +0.0 wherever the script divides.
FDiv(a, b, scale) ==
    IF a.k = "nan" \/ b.k = "nan" THEN NaN
    ELSE IF a.k = "inf" /\ b.k = "inf" THEN NaN
    ELSE IF a.k = "inf" THEN Inf(IF b.n < 0 THEN -a.n ELSE a.n)
    ELSE IF b.k = "inf" THEN Fin(0)
    ELSE IF b.n = 0 THEN (IF a.n = 0 THEN NaN ELSE Inf(Sgn(a.n)))
    ELSE Fin(Quot(a.n * scale, b.n))

(* ----------------------------- geometry ------------------------------- *)
Shape == <<NX, NY, NZ>>
OtherShape == <<NX, NY, NZ + 1>>

Vox(sh) == (0 .. sh[1] - 1) \X (0 .. sh[2] - 1) \X (0 .. sh[3] - 1)

\* voxels away from the x and y faces, and the x = 0 plane
Core(sh) == {v \in Vox(sh) : 0 < v[1] /\ v[1] < sh[1] - 1 /\ 0 < v[2] /\ v[2] < sh[2] - 1}
Slab(sh) == {v \in Vox(sh) : v[1] = 0}

TwoLevel(sh, R, in, out) == [v \in Vox(sh) |-> IF v \in R THEN in ELSE out]

\* affines: the diagonal (mm per voxel, signed) and an id of the rest
Affine1 == [diag |-> <<1, 1, MaxVoxelMM>>, id |-> 1]
Affine2 == [diag |-> <<-MaxVoxelMM, MaxVoxelMM, MaxVoxelMM>>, id |-> 2]

NoVol == << >>
NoFile == [shape |-> << >>, affine |-> [diag |-> << >>, id |-> 0], data |-> << >>]

(* ------------------------------ inputs -------------------------------- *)
MagLevels == {0, 1, MaxMag}

\* mag.nii.gz: two echoes; the first two-level, the second constant
MagFiles ==
    { [shape |-> Shape, affine |-> Affine1,
       data |-> << TwoLevel(Shape, R, p[1], p[2]), TwoLevel(Shape, {}, 0, m1) >>] :
         R \in {Core(Shape), Slab(Shape)},
         p \in {<<0, 0>>, <<MaxMag, 0>>, <<MaxMag, 1>>, <<MaxMag, MaxMag>>, <<1, MaxMag>>},
         m1 \in MagLevels }

PhsData(sh) ==
    { << TwoLevel(sh, {}, 0, p0), TwoLevel(sh, Slab(sh), q[1], q[2]) >> :
         p0 \in {0, -PhsStep},
         q \in {<<0, 0>>, <<PhsStep, PhsStep>>, <<PhsStep, -PhsStep>>, <<0, PhsStep>>} }

\* phs.nii.gz: on the magnitude grid, or with another affine, or another shape
PhsFiles ==
    { [shape |-> Shape, affine |-> a, data |-> d] :
         a \in {Affine1, Affine2}, d \in PhsData(Shape) }
    \cup
    { [shape |-> OtherShape, affine |-> Affine1, data |-> d] : d \in PhsData(OtherShape) }

\* te.csv: two echo times (ms)
TEFiles == { <<1, MaxTE>>, <<MaxTE - 1, MaxTE - 1>>, <<MaxTE, MaxTE - 1>> }

\* inputs with a third echo, each on top of a two-echo input above
MagFiles3 ==
    { [shape |-> Shape, affine |-> Affine1,
       data |-> << TwoLevel(Shape, Core(Shape), MaxMag, 0), TwoLevel(Shape, {}, 0, 1),
                   TwoLevel(Shape, {}, 0, MaxMag) >>] }
PhsFiles3 ==
    { [shape |-> Shape, affine |-> Affine1,
       data |-> << TwoLevel(Shape, {}, 0, 0), TwoLevel(Shape, Slab(Shape), 0, PhsStep),
                   TwoLevel(Shape, Core(Shape), -PhsStep, PhsStep) >>] }
TEFiles3 == { <<1, MaxTE, MaxTE - 1>> }

\* mag[..., 0], mag[..., 1]; phs[..., 0], phs[..., 1]; te[0], te[1]
FirstEcho(stack) == stack[1]
LastEcho(stack) == stack[Len(stack)]
SecondEcho(stack) == stack[2]

(* ------------------------------- state -------------------------------- *)
VARIABLES
    pc,          \* the statement of main() that runs next
    err,         \* the exception that ended the run, "" if none
    mag,         \* mag_nii / mag: shape, affine, echo volumes
    phs,         \* phs_nii / phs: shape, affine, echo volumes (raw, then radians)
    te,          \* echo times
    T,           \* affine saved for the outputs
    mask, dTE, T2star_ms, dphi, dB0_rad_s, dB0_Hz, spacing, grad_dB0,
    files,       \* output files written so far, in order
    reads,       \* input files read so far, in order
    phi, wphi, uphi, upc   \* round trip of the unwrapper on a synthetic field

vars == <<pc, err, mag, phs, te, T, mask, dTE, T2star_ms, dphi, dB0_rad_s,
          dB0_Hz, spacing, grad_dB0, files, reads, phi, wphi, uphi, upc>>

pipe == <<pc, err, mag, phs, te, T, mask, dTE, T2star_ms, dphi, dB0_rad_s,
          dB0_Hz, spacing, grad_dB0, files, reads>>
trip == <<phi, wphi, uphi, upc>>

(* ------------------------- mask (lines 65-68) ------------------------- *)
RECURSIVE MaxOver(_, _)
MaxOver(f, S) ==
    IF Cardinality(S) = 1 THEN f[CHOOSE v \in S : TRUE]
    ELSE LET v == CHOOSE w \in S : TRUE
             m == MaxOver(f, S \ {v})
         IN IF f[v] > m THEN f[v] ELSE m

VolMax(f) == MaxOver(f, DOMAIN f)

\* the comparison taken as >= (a voxel at the threshold enters the mask)
ThresholdAtLeast(m0, v) == IF m0[v] * ThresholdInv >= VolMax(m0) THEN 1 ELSE 0

\* mag_0 > np.max(mag_0) * 0.1, as 0.0 / 1.0
Threshold(m0, v) == IF m0[v] * ThresholdInv > VolMax(m0) THEN 1 ELSE 0

SignalMask(m0) == [v \in DOMAIN m0 |-> Threshold(m0, v)]

(* ------------------------- T2* (lines 70-74) -------------------------- *)
RECURSIVE Atanh(_, _, _)
Atanh(pow, z, i) ==
    IF i >= LnTerms THEN 0
    ELSE pow \div (2 * i + 1) + Atanh((pow * z * z) \div (LnScale * LnScale), z, i + 1)

\* np.log(a / b) for non-negative samples a, b
LogRatio(a, b) ==
    IF a = 0 /\ b = 0 THEN NaN                           \* log(0/0)
    ELSE IF b = 0 THEN Inf(1)                            \* log(a/0) = log(inf)
    ELSE IF a = 0 THEN Inf(-1)                           \* log(0)
    ELSE LET z == (Abs(a - b) * LnScale) \div (a + b)
         IN Fin(Sgn(a - b) * 2 * Atanh(z, z, 0))

T2starVoxel(d, a, b, m) == FMul(FDiv(Fin(d), LogRatio(a, b), LnScale * LnScale), Fin(m))

T2star(d, m0, m1, msk) == [v \in DOMAIN m0 |-> T2starVoxel(d, m0[v], m1[v], msk[v])]

(* ---------------------- phase (lines 76-84) --------------------------- *)
Pi == 2 * PhaseFullScale
TwoPi == 2 * Pi

\* phs * np.pi / 4096.0, counted in half counts
ScalePhase(r) == 2 * r

\* the wrap step with its sign reversed
FindWrapReversed(l, r) == IF l - r > Pi THEN 1 ELSE IF l - r < -Pi THEN -1 ELSE 0

\* skimage unwrap_phase: one wrap step across an edge
FindWrap(l, r) == IF l - r > Pi THEN -1 ELSE IF l - r < -Pi THEN 1 ELSE 0

Pred(v) == IF v[1] > 0 THEN <<v[1] - 1, v[2], v[3]>>
           ELSE IF v[2] > 0 THEN <<v[1], v[2] - 1, v[3]>>
           ELSE <<v[1], v[2], v[3] - 1>>

\* number of 2 pi added to voxel v relative to the first voxel
RECURSIVE Increment(_, _)
Increment(f, v) ==
    IF v = <<0, 0, 0>> THEN 0
    ELSE Increment(f, Pred(v)) - FindWrap(f[Pred(v)].n, f[v].n)

\* the unwrapped volume in which voxel root keeps its value
Unwrap(f, root) ==
    [v \in DOMAIN f |-> Fin(f[v].n + TwoPi * (Increment(f, v) - Increment(f, root)))]

Roots(sh) == {<<0, 0, 0>>, <<sh[1] - 1, sh[2] - 1, sh[3] - 1>>}

(* ------------------------------ actions ------------------------------- *)
Init ==
    /\ pc = "load_mag" /\ err = ""
    /\ mag = NoFile /\ phs = NoFile /\ te = << >> /\ T = NoFile.affine
    /\ mask = NoVol /\ dTE = 0 /\ T2star_ms = NoVol /\ dphi = NoVol
    /\ dB0_rad_s = NoVol /\ dB0_Hz = NoVol /\ spacing = << >> /\ grad_dB0 = NoVol
    /\ files = << >> /\ reads = << >>
    /\ phi = NoVol /\ wphi = NoVol /\ uphi = NoVol /\ upc = "off"

\* lines 50-52
LoadMag ==
    /\ pc = "load_mag"
    /\ \E f \in MagFiles \cup MagFiles3 : mag' = f
    /\ reads' = Append(reads, "mag.nii.gz")
    /\ pc' = "load_phs"
    /\ UNCHANGED <<err, phs, te, T, mask, dTE, T2star_ms, dphi, dB0_rad_s, dB0_Hz,
                   spacing, grad_dB0, files, trip>>

\* lines 54-56
LoadPhs ==
    /\ pc = "load_phs"
    /\ \E f \in PhsFiles \cup PhsFiles3 : phs' = f
    /\ reads' = Append(reads, "phs.nii.gz")
    /\ pc' = "load_te"
    /\ UNCHANGED <<err, mag, te, T, mask, dTE, T2star_ms, dphi, dB0_rad_s, dB0_Hz,
                   spacing, grad_dB0, files, trip>>

\* lines 58-60
LoadTE ==
    /\ pc = "load_te"
    /\ \E f \in TEFiles \cup TEFiles3 : te' = f
    /\ reads' = Append(reads, "te.csv")
    /\ pc' = "affine"
    /\ UNCHANGED <<err, mag, phs, T, mask, dTE, T2star_ms, dphi, dB0_rad_s, dB0_Hz,
                   spacing, grad_dB0, files, trip>>

\* lines 62-63
SaveAffine ==
    /\ pc = "affine"
    /\ T' = phs.affine
    /\ pc' = "mask"
    /\ UNCHANGED <<err, mag, phs, te, mask, dTE, T2star_ms, dphi, dB0_rad_s, dB0_Hz,
                   spacing, grad_dB0, files, reads, trip>>

\* lines 65-68
MakeMask ==
    /\ pc = "mask"
    /\ mask' = SignalMask(FirstEcho(mag.data))
    /\ pc' = "dte"
    /\ UNCHANGED <<err, mag, phs, te, T, dTE, T2star_ms, dphi, dB0_rad_s, dB0_Hz,
                   spacing, grad_dB0, files, reads, trip>>

\* lines 70-71
EchoDiff ==
    /\ pc = "dte"
    /\ dTE' = SecondEcho(te) - FirstEcho(te)
    /\ pc' = "t2star"
    /\ UNCHANGED <<err, mag, phs, te, T, mask, T2star_ms, dphi, dB0_rad_s, dB0_Hz,
                   spacing, grad_dB0, files, reads, trip>>

\* lines 73-74
EstimateT2star ==
    /\ pc = "t2star"
    /\ T2star_ms' = T2star(dTE, FirstEcho(mag.data), SecondEcho(mag.data), mask)
    /\ pc' = "scale"
    /\ UNCHANGED <<err, mag, phs, te, T, mask, dTE, dphi, dB0_rad_s, dB0_Hz,
                   spacing, grad_dB0, files, reads, trip>>

\* lines 76-77
RescalePhase ==
    /\ pc = "scale"
    /\ phs' = [phs EXCEPT !.data =
                 [e \in DOMAIN phs.data |->
                    [v \in DOMAIN phs.data[e] |-> ScalePhase(phs.data[e][v])]]]
    /\ pc' = "diff"
    /\ UNCHANGED <<err, mag, te, T, mask, dTE, T2star_ms, dphi, dB0_rad_s, dB0_Hz,
                   spacing, grad_dB0, files, reads, trip>>

\* lines 79-81
PhaseDiff ==
    /\ pc = "diff"
    /\ dphi' = [v \in DOMAIN FirstEcho(phs.data) |->
                  Fin(SecondEcho(phs.data)[v] - FirstEcho(phs.data)[v])]
    /\ pc' = "unwrap"
    /\ UNCHANGED <<err, mag, phs, te, T, mask, dTE, T2star_ms, dB0_rad_s, dB0_Hz,
                   spacing, grad_dB0, files, reads, trip>>

\* lines 83-84; the voxel that keeps its value depends on the order in which
\* the library merges regions
UnwrapPhase ==
    /\ pc = "unwrap"
    /\ \E root \in Roots(phs.shape) : dphi' = Unwrap(dphi, root)
    /\ pc' = "medfilt"
    /\ UNCHANGED <<err, mag, phs, te, T, mask, dTE, T2star_ms, dB0_rad_s, dB0_Hz,
                   spacing, grad_dB0, files, reads, trip>>

(* -------------------- denoising (lines 86-93) -------------------------- *)
\* the r-th smallest (r = 1 ..) of the values val[i], i in S
KthSmallest(val, S, r) ==
    CHOOSE x \in {val[i] : i \in S} :
        /\ Cardinality({i \in S : val[i] < x}) < r
        /\ Cardinality({i \in S : val[i] <= x}) >= r

Half == KernelSize \div 2
Offsets == (-Half .. Half) \X (-Half .. Half) \X (-Half .. Half)

\* the kernel window around v, zero-padded outside the volume
Window(f, v) ==
    [o \in Offsets |->
        LET w == <<v[1] + o[1], v[2] + o[2], v[3] + o[3]>>
        IN IF w \in DOMAIN f THEN f[w].n ELSE 0]

\* scipy.signal.medfilt(dphi, 3) at voxel v
MedFiltVoxel(f, v) == Fin(KthSmallest(Window(f, v), Offsets, (Cardinality(Offsets) \div 2) + 1))

\* medfilt(dphi, 3) * mask
MedFiltMasked(f, msk) == [v \in DOMAIN f |-> FMul(MedFiltVoxel(f, v), Fin(msk[v]))]

InMask(msk) == {v \in DOMAIN msk : msk[v] # 0}

\* np.median over the finite samples f[v], v in S; the samples are even
\* counts, so the mean of the two middle ones is exact
Median(f, S) ==
    LET n == Cardinality(S)
        val == [v \in S |-> f[v].n]
    IN IF n = 0 THEN NaN
       ELSE IF n % 2 = 1 THEN Fin(KthSmallest(val, S, (n + 1) \div 2))
       ELSE Fin((KthSmallest(val, S, n \div 2) + KthSmallest(val, S, (n \div 2) + 1)) \div 2)

SubtractMedian(f, med) == [v \in DOMAIN f |-> FSub(f[v], med)]

Broadcastable(s1, s2) ==
    \A i \in 1 .. 3 : s1[i] = s2[i] \/ s1[i] = 1 \/ s2[i] = 1

(* -------------------- field maps (lines 95-99) ------------------------ *)
RadScale == Fact(MaxTE)

\* dphi / dTE * mask
FieldRadVoxel(p, d, m) == FMul(FDiv(p, Fin(d), RadScale), Fin(m))
FieldRad(f, d, msk) == [v \in DOMAIN f |-> FieldRadVoxel(f[v], d, msk[v])]

\* dB0_rad_s / (2.0 * np.pi): the rad/s unit carries the factor pi, the Hz unit
\* does not; the quotient by 2 is counted in halves
FieldHzVoxel(a) == FDiv(a, Fin(2), 2)
FieldHz(f) == [v \in DOMAIN f |-> FieldHzVoxel(f[v])]

(* -------------------- gradient (lines 101-117) ------------------------ *)
VoxelDims(A) == [i \in 1 .. 3 |-> Abs(A.diag[i])]

GradScale == 2 * Fact(MaxVoxelMM)

Step(v, a, k) == [v EXCEPT ![a] = v[a] + k]

\* np.gradient along axis a: central differences, one-sided at the faces
GradientAxis(f, sh, v, a, h) ==
    IF v[a] = 0 THEN FDiv(FSub(f[Step(v, a, 1)], f[v]), Fin(h), GradScale)
    ELSE IF v[a] = sh[a] - 1 THEN FDiv(FSub(f[v], f[Step(v, a, -1)]), Fin(h), GradScale)
    ELSE FDiv(FSub(f[Step(v, a, 1)], f[Step(v, a, -1)]), Fin(2 * h), GradScale)

\* g *= mask / gamma_1H
GradientMasked(g, m) == FMul(g, Fin(m))

Gradient(f, sh, h, msk) ==
    [v \in DOMAIN f |->
        [a \in 1 .. 3 |-> GradientMasked(GradientAxis(f, sh, v, a, h[a]), msk[v])]]

(* ------------------------- rest of main() ----------------------------- *)
\* lines 86-88
MedianFilter ==
    /\ pc = "medfilt"
    /\ phs.shape = mag.shape
    /\ dphi' = MedFiltMasked(dphi, mask)
    /\ pc' = "zero_med"
    /\ UNCHANGED <<err, mag, phs, te, T, mask, dTE, T2star_ms, dB0_rad_s, dB0_Hz,
                   spacing, grad_dB0, files, reads, trip>>

\* line 88 when the operands of * cannot be broadcast
MedianFilterFail ==
    /\ pc = "medfilt"
    /\ ~Broadcastable(phs.shape, mag.shape)
    /\ pc' = "failed"
    /\ err' = "ValueError"
    /\ UNCHANGED <<mag, phs, te, T, mask, dTE, T2star_ms, dphi, dB0_rad_s, dB0_Hz,
                   spacing, grad_dB0, files, reads, trip>>

\* the denoised dphi written at once, before the field maps are computed
ZeroMedianThenSave ==
    /\ pc = "zero_med"
    /\ dphi' = SubtractMedian(dphi, Median(dphi, InMask(mask)))
    /\ files' = Append(files, [name |-> "dphi.nii.gz", data |-> dphi', affine |-> T,
                                complete |-> TRUE])
    /\ pc' = "rad_s"
    /\ UNCHANGED <<err, mag, phs, te, T, mask, dTE, T2star_ms, dB0_rad_s, dB0_Hz,
                   spacing, grad_dB0, reads, trip>>

\* lines 90-93
ZeroMedian ==
    /\ pc = "zero_med"
    /\ dphi' = SubtractMedian(dphi, Median(dphi, InMask(mask)))
    /\ pc' = "rad_s"
    /\ UNCHANGED <<err, mag, phs, te, T, mask, dTE, T2star_ms, dB0_rad_s, dB0_Hz,
                   spacing, grad_dB0, files, reads, trip>>

\* lines 95-96
FieldRadS ==
    /\ pc = "rad_s"
    /\ dB0_rad_s' = FieldRad(dphi, dTE, mask)
    /\ pc' = "hz"
    /\ UNCHANGED <<err, mag, phs, te, T, mask, dTE, T2star_ms, dphi, dB0_Hz,
                   spacing, grad_dB0, files, reads, trip>>

\* lines 98-99
FieldHertz ==
    /\ pc = "hz"
    /\ dB0_Hz' = FieldHz(dB0_rad_s)
    /\ pc' = "voxdims"
    /\ UNCHANGED <<err, mag, phs, te, T, mask, dTE, T2star_ms, dphi, dB0_rad_s,
                   spacing, grad_dB0, files, reads, trip>>

\* lines 101-104
VoxelSize ==
    /\ pc = "voxdims"
    /\ spacing' = VoxelDims(T)
    /\ pc' = "grad"
    /\ UNCHANGED <<err, mag, phs, te, T, mask, dTE, T2star_ms, dphi, dB0_rad_s,
                   dB0_Hz, grad_dB0, files, reads, trip>>

\* lines 106-117
FieldGradient ==
    /\ pc = "grad"
    /\ grad_dB0' = Gradient(dB0_Hz, phs.shape, spacing, mask)
    /\ pc' = "save_dphi"
    /\ UNCHANGED <<err, mag, phs, te, T, mask, dTE, T2star_ms, dphi, dB0_rad_s,
                   dB0_Hz, spacing, files, reads, trip>>

\* nb.Nifti1Image(data, T).to_filename(name)
Save(at, name, data, then) ==
    /\ pc = at
    /\ files' = Append(files, [name |-> name, data |-> data, affine |-> T,
                                complete |-> TRUE])
    /\ pc' = then
    /\ UNCHANGED <<err, mag, phs, te, T, mask, dTE, T2star_ms, dphi, dB0_rad_s,
                   dB0_Hz, spacing, grad_dB0, reads, trip>>

SaveDphi == Save("save_dphi", "dphi.nii.gz", dphi, "save_rad_s")            \* 123-125
SaveRadS == Save("save_rad_s", "dB0_rad_s.nii.gz", dB0_rad_s, "save_hz")    \* 127-129
\* the Hz map written over the rad/s file
SaveHzOverRadS == Save("save_hz", "dB0_rad_s.nii.gz", dB0_Hz, "save_grad")
SaveHz == Save("save_hz", "dB0_Hz.nii.gz", dB0_Hz, "save_grad")             \* 131-133
SaveGrad == Save("save_grad", "grad_dB0.nii.gz", grad_dB0, "save_t2star")   \* 135-137
SaveT2star == Save("save_t2star", "T2star_ms.nii.gz", T2star_ms, "save_mask") \* 139-141
SaveMask == Save("save_mask", "mask.nii.gz", mask, "done")                  \* 143-145

\* the save statements in program order: where each runs, what it writes
SavePc == <<"save_dphi", "save_rad_s", "save_hz", "save_grad", "save_t2star", "save_mask">>
OutputOrder == <<"dphi.nii.gz", "dB0_rad_s.nii.gz", "dB0_Hz.nii.gz",
                 "grad_dB0.nii.gz", "T2star_ms.nii.gz", "mask.nii.gz">>

\* to_filename raises (lines 125, 129, 133, 137, 141, 145): the file is not
\* there, or is there truncated, and main() ends
SaveFail ==
    /\ \E i \in DOMAIN SavePc :
          /\ pc = SavePc[i]
          /\ \/ files' = files
             \/ files' = Append(files, [name |-> OutputOrder[i], data |-> NoVol,
                                        affine |-> T, complete |-> FALSE])
    /\ pc' = "failed"
    /\ err' = "OSError"
    /\ UNCHANGED <<mag, phs, te, T, mask, dTE, T2star_ms, dphi, dB0_rad_s, dB0_Hz,
                   spacing, grad_dB0, reads, trip>>

Next ==
    \/ LoadMag \/ LoadPhs \/ LoadTE \/ SaveAffine \/ MakeMask \/ EchoDiff
    \/ EstimateT2star \/ RescalePhase \/ PhaseDiff \/ UnwrapPhase
    \/ MedianFilter \/ MedianFilterFail \/ ZeroMedian \/ FieldRadS \/ FieldHertz
    \/ VoxelSize \/ FieldGradient
    \/ SaveDphi \/ SaveRadS \/ SaveHz \/ SaveGrad \/ SaveT2star \/ SaveMask
    \/ SaveFail

Spec == Init /\ [][Next]_vars

(* --------------- round trip of the unwrapper (lines 83-84) ------------ *)
\* wrap(phi) = mod(phi + pi, 2 pi) - pi
Wrap(x) == ((x + Pi) % TwoPi) - Pi

Adjacent(v, w) == Abs(v[1] - w[1]) + Abs(v[2] - w[2]) + Abs(v[3] - w[3]) = 1

\* adjacent samples differ by less than pi
Smooth(f) ==
    \A v \in DOMAIN f : \A w \in DOMAIN f :
        Adjacent(v, w) => Abs(f[v].n - f[w].n) < Pi

\* ramps with a bump on the core, some of them too steep to be smooth
RampFields ==
    { [v \in Vox(Shape) |->
          Fin(c + g[1] * v[1] + g[2] * v[2] + g[3] * v[3]
                + (IF v \in Core(Shape) THEN b ELSE 0))] :
        c \in {0, (5 * Pi) \div 2 + 1},
        g \in {-((3 * Pi) \div 4), 0, (3 * Pi) \div 4}
              \X {-((3 * Pi) \div 4), 0, (3 * Pi) \div 4}
              \X {-((3 * Pi) \div 4), 0, (3 * Pi) \div 4},
        b \in {0, Pi \div 5, Pi \div 2} }

SmoothFields == {f \in RampFields : Smooth(f)}

InitTrip ==
    /\ pc = "off" /\ err = ""
    /\ mag = NoFile /\ phs = NoFile /\ te = << >> /\ T = NoFile.affine
    /\ mask = NoVol /\ dTE = 0 /\ T2star_ms = NoVol /\ dphi = NoVol
    /\ dB0_rad_s = NoVol /\ dB0_Hz = NoVol /\ spacing = << >> /\ grad_dB0 = NoVol
    /\ files = << >> /\ reads = << >>
    /\ phi \in SmoothFields /\ wphi = NoVol /\ uphi = NoVol /\ upc = "wrap"

WrapField ==
    /\ upc = "wrap"
    /\ wphi' = [v \in DOMAIN phi |-> Fin(Wrap(phi[v].n))]
    /\ upc' = "unwrap"
    /\ UNCHANGED <<pipe, phi, uphi>>

UnwrapField ==
    /\ upc = "unwrap"
    /\ \E root \in Roots(Shape) : uphi' = Unwrap(wphi, root)
    /\ upc' = "done"
    /\ UNCHANGED <<pipe, phi, wphi>>

NextTrip == WrapField \/ UnwrapField

SpecUnwrap == InitTrip /\ [][NextTrip]_vars

(* ------------------------------ claims -------------------------------- *)
M0 == mag.data[1]
M1 == mag.data[2]

MaskMade == pc \notin {"off", "load_mag", "load_phs", "load_te", "affine", "mask"}
T2starMade == MaskMade /\ pc \notin {"dte", "t2star"}
Denoised ==
    T2starMade /\ pc \notin {"scale", "diff", "unwrap", "medfilt", "zero_med", "failed"}
Saved(name) == \E i \in DOMAIN files : files[i].name = name /\ files[i].complete
FileData(name) ==
    files[CHOOSE i \in DOMAIN files : files[i].name = name /\ files[i].complete].data

\* C1: the mask is 1 exactly at the voxels whose first-echo magnitude
\* exceeds a tenth of the largest first-echo magnitude and 0 elsewhere; it is
\* all zero iff the first echo is all zero; the saved mask is that mask.
C1_MaskInvariant ==
    MaskMade =>
        /\ DOMAIN mask = DOMAIN M0
        /\ LET top == CHOOSE m \in {M0[w] : w \in DOMAIN M0} :
                          \A u \in DOMAIN M0 : M0[u] <= m
           IN \A v \in DOMAIN M0 :
                 /\ mask[v] \in {0, 1}
                 /\ mask[v] = 1 <=> 10 * M0[v] > top
        /\ (\A v \in DOMAIN M0 : mask[v] = 0) <=> (\A v \in DOMAIN M0 : M0[v] = 0)
        /\ Saved("mask.nii.gz") => FileData("mask.nii.gz") = mask

\* a run that saved a mask with voxels in and out, one of them exactly at
\* the threshold
C1_Witness ==
    /\ pc = "done"
    /\ \E v \in DOMAIN M0 : mask[v] = 1
    /\ \E v \in DOMAIN M0 : mask[v] = 0 /\ M0[v] > 0

\* C2: with an all-zero first echo the run completes and the mask, T2*,
\* both field maps and the gradient are zero at every voxel.
C2_DegenerateAllZero ==
    (pc = "done" /\ \A v \in DOMAIN M0 : M0[v] = 0) =>
        \A v \in DOMAIN M0 :
            /\ mask[v] = 0
            /\ T2star_ms[v] = Fin(0)
            /\ dB0_rad_s[v] = Fin(0)
            /\ dB0_Hz[v] = Fin(0)
            /\ \A a \in 1 .. 3 : grad_dB0[v][a] = Fin(0)

\* C3: after denoising, the median of dphi over the in-mask voxels is 0.
C3_ZeroOffset ==
    Denoised => Median(dphi, InMask(mask)) = Fin(0)

\* C4: the denoised (and saved) dphi is 0 at every voxel outside the mask.
C4_PhaseZeroOutsideMask ==
    Denoised =>
        /\ \A v \in DOMAIN mask : mask[v] = 0 => dphi[v] = Fin(0)
        /\ Saved("dphi.nii.gz") => FileData("dphi.nii.gz") = dphi

\* C5: at every voxel dB0_rad_s = dphi / dTE and dB0_Hz = dB0_rad_s / (2 pi).
C5_FieldLinearity ==
    pc = "done" =>
        \A v \in DOMAIN dphi :
            /\ FileData("dB0_rad_s.nii.gz")[v]
                  = FDiv(FileData("dphi.nii.gz")[v], Fin(dTE), RadScale)
            /\ FileData("dB0_Hz.nii.gz")[v]
                  = FDiv(FileData("dB0_rad_s.nii.gz")[v], Fin(2), 2)

\* C6: the saved gradient is (0, 0, 0) at every voxel outside the mask.
C6_GradientMasking ==
    pc = "done" =>
        \A v \in DOMAIN mask :
            mask[v] = 0 =>
                \A a \in 1 .. 3 : FileData("grad_dB0.nii.gz")[v][a] = Fin(0)

\* C7: T2* is dTE * 1000 / ln(M0 / M1) inside the mask and exactly 0 at
\* every voxel outside it.
C7_T2starMasking ==
    T2starMade =>
        \A v \in DOMAIN mask :
            /\ mask[v] = 1 =>
                  T2star_ms[v] = FDiv(Fin(dTE), LogRatio(M0[v], M1[v]), LnScale * LnScale)
            /\ mask[v] = 0 => T2star_ms[v] = Fin(0)

C9_EchoTimePrecondition ==
    (te # << >> /\ te[2] - te[1] <= 0) =>
        /\ mask = NoVol /\ T2star_ms = NoVol /\ dphi = NoVol /\ files = << >>
        /\ pc \in {"affine", "mask", "failed"}
        /\ pc = "failed" => err = "InvalidEchoTimesError"

\* C10: when the shapes or affines of magnitude and phase differ the run
\* fails with GeometryMismatchError before anything is computed or written.
C10_GeometryPrecondition ==
    (phs # NoFile /\ (phs.shape # mag.shape \/ phs.affine # mag.affine)) =>
        /\ mask = NoVol /\ T2star_ms = NoVol /\ dphi = NoVol /\ files = << >>
        /\ pc \in {"load_te", "affine", "mask", "failed"}
        /\ pc = "failed" => err = "GeometryMismatchError"

Derived == <<mask, T2star_ms, dphi, dB0_rad_s, dB0_Hz, grad_dB0>>
AnyDerived == \E i \in DOMAIN Derived : Derived[i] # NoVol
AllDerived == \A i \in DOMAIN Derived : Derived[i] # NoVol

\* C11: the three inputs are read, in order and once, before any derived
\* volume exists; nothing is read once a derived volume exists; no output
\* file exists before all six derived volumes do, so a run that failed before
\* the save phase has written nothing.
C11_IOOrdering ==
    /\ AnyDerived => reads = <<"mag.nii.gz", "phs.nii.gz", "te.csv">>
    /\ files # << >> => AllDerived /\ pc \in {"save_rad_s", "save_hz", "save_grad",
                                               "save_t2star", "save_mask", "done", "failed"}
    /\ (pc = "failed" /\ ~AllDerived) => files = << >>

\* a run that failed in the middle of the computation, after the mask and
\* the phase difference were made, with nothing written
C11_Witness ==
    /\ pc = "failed" /\ err = "ValueError"
    /\ mask # NoVol /\ dphi # NoVol /\ grad_dB0 = NoVol
    /\ Len(reads) = 3 /\ files = << >>

\* C14: the files written so far are, in order and without repetition, the
\* first names of dphi, dB0_rad_s, dB0_Hz, grad_dB0, T2star_ms, mask; this
\* holds at every save statement and after a failure in the save phase, and
\* a run that ends normally has written all six, each once.
C14_WriteOrder ==
    /\ Len(files) <= Len(OutputOrder)
    /\ \A i \in DOMAIN files : files[i].name = OutputOrder[i]
    /\ \A i \in DOMAIN SavePc : pc = SavePc[i] => Len(files) = i - 1
    /\ pc = "done" => /\ Len(files) = Len(OutputOrder)
                      /\ \A i \in DOMAIN files : files[i].complete

\* a run stopped inside the save phase with some, not all, files written
C14_Witness ==
    /\ pc = "failed" /\ err = "OSError"
    /\ Len(files) = 3
    /\ ~files[3].complete

\* C12: every output file carries one affine, and it is the affine of the
\* magnitude input and of the phase input alike.
C12_SharedAffine ==
    \A i \in DOMAIN files :
        /\ files[i].affine = files[1].affine
        /\ files[i].affine = phs.affine
        /\ files[i].affine = mag.affine

\* the six written volumes are what main() makes from echoes 0 and 1 alone,
\* for one outcome of the unwrapper: the mask, T2* and dphi from the inputs,
\* each field map from the volume written before it (phs holds radians here;
\* the rescaling works on each sample by itself)
MadeFromTwoEchoes(root) ==
    LET m0 == mag.data[1]
        m1 == mag.data[2]
        dt == te[2] - te[1]
        msk == FileData("mask.nii.gz")
        d0 == [v \in DOMAIN phs.data[1] |-> Fin(phs.data[2][v] - phs.data[1][v])]
        d1 == MedFiltMasked(Unwrap(d0, root), msk)
    IN  /\ msk = SignalMask(m0)
        /\ FileData("T2star_ms.nii.gz") = T2star(dt, m0, m1, msk)
        /\ FileData("dphi.nii.gz") = SubtractMedian(d1, Median(d1, InMask(msk)))
        /\ FileData("dB0_rad_s.nii.gz") = FieldRad(FileData("dphi.nii.gz"), dt, msk)
        /\ FileData("dB0_Hz.nii.gz") = FieldHz(FileData("dB0_rad_s.nii.gz"))
        /\ FileData("grad_dB0.nii.gz") =
               Gradient(FileData("dB0_Hz.nii.gz"), phs.shape, VoxelDims(phs.affine), msk)

====
